---- MODULE Spec2Model ----
(***************************************************************************)
(* The augmented AVL interval tree of                                      *)
(* Augmented_AVL_trees_as_memoization_table/                               *)
(*   remove_common_subsequences_dp_reinventing_the_wheel.py                *)
(* (class interval_tree_genomics) together with the caller that creates    *)
(* nodes and inserts them one after the other.                             *)
(*                                                                         *)
(* Objects are numbered 1..Len(nodes) in creation order; None is 0.  One   *)
(* call of insert is split at the points where the code calls itself:      *)
(* the descent and the attachment, one level of                            *)
(* _update_balance_factors_and_rebalance, the second half of a double      *)
(* rotation, and the max_position updates done while the insert frames     *)
(* return.  An exception is never caught by the code, so it ends the run.  *)
(***************************************************************************)
EXTENDS Integers, Sequences, FiniteSets

\* ------------------------------------------------------------------ bounds
MaxNodes == 7      \* nodes created in one run
MaxStart == 3      \* interval_start is drawn from 0..MaxStart
MaxAugNodes == 5   \* nodes created in one run of the augmentation workload
MaxLen == 1        \* there, interval_end - interval_start is drawn from 0..MaxLen
MaxAnyNodes == 3   \* nodes created in one run with unchecked intervals
MaxScenarioNodes == 6  \* nodes created in one run that starts with a scenario
MaxKey == 3        \* heap keys are drawn from 1..MaxKey
MaxHeapInserts == 5    \* nodes inserted into the heap in one run
MaxDriverNodes == 5    \* nodes created in one run of the module's driver
MaxFollowNodes == 9    \* nodes created in one run that starts after a double rotation

None == 0
NoAttr == -1       \* the class has no attribute of that name
NoCall == -2       \* insert has not returned yet

VARIABLES
    nodes,         \* the objects created so far, by their fields
    _id_counter,   \* interval_tree_genomics._id_counter, or NoAttr
    tree,          \* the caller's variable `tree`: the first node created
    caller,        \* "top": insert is called on tree.get_root(); "first": on tree
    limits,        \* the workload of this run: [nodes, lens, script]
    pc,            \* "idle", "created", "update", "second_rotation", "unwind", "raised"
    new,           \* the node created and not yet passed to insert, or None
    stack,         \* the nodes whose insert frames are open, outermost first
    upd,           \* the open frame of _update_balance_factors_and_rebalance
    rotations,     \* the rotation cases taken by the insert in progress / last insert
    ret,           \* what the last completed insert returned
    exc,           \* the exception that ended the run, or "none"
    pre,           \* the nodes as they were when the insert in progress was called
    reply,         \* the last query or delete call and its result, or NoReply
    heap           \* the stronger_min_heap objects, by their fields

vars == <<nodes, _id_counter, tree, caller, limits, pc, new, stack, upd, rotations, ret,
          exc, pre, reply, heap>>

NoReply == [op |-> "none"]

NoFrame == [self |-> None, insertion_at_right_subtree |-> FALSE]

\* ------------------------------------------------------------------ __init__
\* The fields set by __init__ (the payload fields sequence, ref_seq_id and
\* targ_seq_id are never read by the tree and are left out).
NewNode(id, start, end) ==
    [node_id |-> id, left_child |-> None, right_child |-> None, parent |-> None,
     balance_factor |-> 0, interval_start |-> start, interval_end |-> end,
     max_position |-> end]

\* ------------------------------------------------------------------ get_root
RECURSIVE get_root(_, _)
get_root(ns, current) ==
    IF ns[current].parent # None THEN get_root(ns, ns[current].parent) ELSE current

\* update_root changes nothing when get_root's result has no parent, which is
\* always: it returns the top node.
update_root(ns, self) == get_root(ns, self)

\* ------------------------------------------------------------------ insert: descent
\* the comparison of line 47 turned around
GoesLeft_Reversed(ns, self, node) ==
    ns[self].interval_start <= ns[node].interval_start

\* line 47: the new node goes to the left subtree (ties go left)
GoesLeft(ns, self, node) == ns[self].interval_start >= ns[node].interval_start

\* The nodes on which insert is called, outermost first; the last one gets
\* the new node as a child.
RECURSIVE InsertPath(_, _, _)
InsertPath(ns, self, node) ==
    IF GoesLeft(ns, self, node)
    THEN IF ns[self].left_child # None
         THEN <<self>> \o InsertPath(ns, ns[self].left_child, node)
         ELSE <<self>>
    ELSE IF ns[self].right_child # None
         THEN <<self>> \o InsertPath(ns, ns[self].right_child, node)
         ELSE <<self>>

\* line 53 written like line 62: the left branch sets right_child
Attach_RightSlot(ns, self, node, right) ==
    [ns EXCEPT ![node].parent = self, ![self].right_child = node]

\* lines 52-53 and 61-62
Attach(ns, self, node, right) ==
    IF right
    THEN [ns EXCEPT ![node].parent = self, ![self].right_child = node]
    ELSE [ns EXCEPT ![node].parent = self, ![self].left_child = node]

\* ------------------------------------------------------------------ rotations
\* without lines 90-91: the subtree that changes sides keeps its old parent
_single_left_rotation_NoReparent(ns, self) ==
    LET new_root == ns[self].right_child
        s1 == [ns EXCEPT ![self].right_child = ns[new_root].left_child]
        s3 == [s1 EXCEPT ![new_root].parent = s1[self].parent]
        s4 == IF s3[self].parent = None
              THEN s3
              ELSE IF self = s3[s3[self].parent].left_child
                   THEN [s3 EXCEPT ![s3[self].parent].left_child = new_root]
                   ELSE [s3 EXCEPT ![s3[self].parent].right_child = new_root]
        s5 == [s4 EXCEPT ![new_root].left_child = self]
        s6 == [s5 EXCEPT ![self].parent = new_root]
    IN  [s6 EXCEPT ![self].balance_factor = 0, ![new_root].balance_factor = 0]

\* without lines 104-105: the balance factors are not reset
_single_left_rotation_NoReset(ns, self) ==
    LET new_root == ns[self].right_child
        s1 == [ns EXCEPT ![self].right_child = ns[new_root].left_child]
        s2 == IF s1[new_root].left_child # None
              THEN [s1 EXCEPT ![s1[new_root].left_child].parent = self]
              ELSE s1
        s3 == [s2 EXCEPT ![new_root].parent = s2[self].parent]
        s4 == IF s3[self].parent = None
              THEN s3
              ELSE IF self = s3[s3[self].parent].left_child
                   THEN [s3 EXCEPT ![s3[self].parent].left_child = new_root]
                   ELSE [s3 EXCEPT ![s3[self].parent].right_child = new_root]
        s5 == [s4 EXCEPT ![new_root].left_child = self]
    IN  [s5 EXCEPT ![self].parent = new_root]

\* lines 88-105, statement by statement (the value returned at line 107 is
\* dropped by every caller)
_single_left_rotation(ns, self) ==
    LET new_root == ns[self].right_child
        s1 == [ns EXCEPT ![self].right_child = ns[new_root].left_child]
        s2 == IF s1[new_root].left_child # None
              THEN [s1 EXCEPT ![s1[new_root].left_child].parent = self]
              ELSE s1
        s3 == [s2 EXCEPT ![new_root].parent = s2[self].parent]
        s4 == IF s3[self].parent = None
              THEN s3
              ELSE IF self = s3[s3[self].parent].left_child
                   THEN [s3 EXCEPT ![s3[self].parent].left_child = new_root]
                   ELSE [s3 EXCEPT ![s3[self].parent].right_child = new_root]
        s5 == [s4 EXCEPT ![new_root].left_child = self]
        s6 == [s5 EXCEPT ![self].parent = new_root]
    IN  [s6 EXCEPT ![self].balance_factor = 0, ![new_root].balance_factor = 0]

\* without lines 116-123: the former parent keeps pointing at the demoted node
_single_right_rotation_NoRelink(ns, self) ==
    LET new_root == ns[self].left_child
        s1 == [ns EXCEPT ![self].left_child = ns[new_root].right_child]
        s2 == IF s1[new_root].right_child # None
              THEN [s1 EXCEPT ![s1[new_root].right_child].parent = self]
              ELSE s1
        s3 == [s2 EXCEPT ![new_root].parent = s2[self].parent]
        s5 == [s3 EXCEPT ![new_root].right_child = self]
        s6 == [s5 EXCEPT ![self].parent = new_root]
    IN  [s6 EXCEPT ![self].balance_factor = 0, ![new_root].balance_factor = 0]

\* lines 111-128
_single_right_rotation(ns, self) ==
    LET new_root == ns[self].left_child
        s1 == [ns EXCEPT ![self].left_child = ns[new_root].right_child]
        s2 == IF s1[new_root].right_child # None
              THEN [s1 EXCEPT ![s1[new_root].right_child].parent = self]
              ELSE s1
        s3 == [s2 EXCEPT ![new_root].parent = s2[self].parent]
        s4 == IF s3[self].parent = None
              THEN s3
              ELSE IF self = s3[s3[self].parent].left_child
                   THEN [s3 EXCEPT ![s3[self].parent].left_child = new_root]
                   ELSE [s3 EXCEPT ![s3[self].parent].right_child = new_root]
        s5 == [s4 EXCEPT ![new_root].right_child = self]
        s6 == [s5 EXCEPT ![self].parent = new_root]
    IN  [s6 EXCEPT ![self].balance_factor = 0, ![new_root].balance_factor = 0]

\* ------------------------------------------------------------------ rebalance
\* One call of _update_balance_factors_and_rebalance (lines 142-176), up to
\* the point where it returns, raises, calls itself on the parent (line 176)
\* or has done the first half of a double rotation (lines 133, 137).
\* Reading a field of None raises AttributeError.
Outcome(ns, next, frame, rotation, e) ==
    [ns |-> ns, next |-> next, frame |-> frame, rotation |-> rotation, exc |-> e]

\* with the case of lines 164-166 handled like the case of lines 154-156
RotationCase_NoDouble(bf, child_bf) ==
    IF bf = 2 /\ child_bf = 1 THEN "single_left"
    ELSE IF bf = 2 /\ child_bf = -1 THEN "single_left"
    ELSE IF bf = -2 /\ child_bf = -1 THEN "single_right"
    ELSE IF bf = -2 /\ child_bf = 1 THEN "double_left_right"
    ELSE "none"

\* without the case of lines 169-171
RotationCase_ThreeCases(bf, child_bf) ==
    IF bf = 2 /\ child_bf = 1 THEN "single_left"
    ELSE IF bf = 2 /\ child_bf = -1 THEN "double_right_left"
    ELSE IF bf = -2 /\ child_bf = -1 THEN "single_right"
    ELSE "none"

\* lines 154, 159, 164 and 169: the rotation for a node's balance factor and
\* the balance factor of its child on the heavy side
RotationCase(bf, child_bf) ==
    IF bf = 2 /\ child_bf = 1 THEN "single_left"
    ELSE IF bf = 2 /\ child_bf = -1 THEN "double_right_left"
    ELSE IF bf = -2 /\ child_bf = -1 THEN "single_right"
    ELSE IF bf = -2 /\ child_bf = 1 THEN "double_left_right"
    ELSE "none"

\* line 151
IllegalBalance(bf) == (IF bf < 0 THEN -bf ELSE bf) > 2

_update_balance_factors_and_rebalance(ns, self, insertion_at_right_subtree) ==
    LET s1 == IF insertion_at_right_subtree
              THEN [ns EXCEPT ![self].balance_factor = @ + 1]
              ELSE [ns EXCEPT ![self].balance_factor = @ - 1]
        bf == s1[self].balance_factor
        here == [self |-> self, insertion_at_right_subtree |-> insertion_at_right_subtree]
        p == s1[self].parent
        \* the child whose balance factor lines 154-169 read
        heavy == IF bf = 2 THEN s1[self].right_child ELSE s1[self].left_child
        case == RotationCase(bf, s1[heavy].balance_factor)
        \* the child of heavy that the first half of a double rotation promotes
        inner == IF bf = 2 THEN s1[heavy].left_child ELSE s1[heavy].right_child
    IN  IF bf = 0 THEN Outcome(s1, "return", here, "none", "none")
        ELSE IF IllegalBalance(bf)
        THEN Outcome(s1, "raise", here, "none", "ValueError")
        ELSE IF bf \in {2, -2} /\ heavy = None
        THEN Outcome(s1, "raise", here, "none", "AttributeError")
        ELSE IF bf \in {2, -2} /\ case = "single_left"
        THEN Outcome(_single_left_rotation(s1, self), "return", here, case, "none")
        ELSE IF bf \in {2, -2} /\ case = "single_right"
        THEN Outcome(_single_right_rotation(s1, self), "return", here, case, "none")
        ELSE IF bf \in {2, -2} /\ case # "none" /\ inner = None
        THEN Outcome(s1, "raise", here, case, "AttributeError")
        ELSE IF bf \in {2, -2} /\ case = "double_right_left"
        THEN Outcome(_single_right_rotation(s1, heavy), "second_rotation", here, case,
                     "none")
        ELSE IF bf \in {2, -2} /\ case = "double_left_right"
        THEN Outcome(_single_left_rotation(s1, heavy), "second_rotation", here, case,
                     "none")
        \* lines 174-176
        ELSE IF p = None THEN Outcome(s1, "return", here, "none", "none")
        ELSE IF s1[p].right_child = None
        THEN Outcome(s1, "raise", here, "none", "AttributeError")
        ELSE Outcome(s1, "recurse",
                     [self |-> p,
                      insertion_at_right_subtree |->
                          s1[s1[p].right_child].node_id = s1[self].node_id],
                     "none", "none")

\* line 134 (after 133) and line 138 (after 137): the rotation at self
SecondHalf(ns, self, rotation) ==
    IF rotation = "double_right_left"
    THEN _single_left_rotation(ns, self)
    ELSE _single_right_rotation(ns, self)

\* ------------------------------------------------------------------ insert: return path
\* lines 64-71, run by one insert frame after the call below it has returned
insert_tail(ns, self) ==
    LET Max2(a, b) == IF a >= b THEN a ELSE b
        l == ns[self].left_child
        r == ns[self].right_child
        m == ns[self].max_position
    IN  IF l = None /\ r = None THEN ns
        ELSE IF r = None
        THEN [ns EXCEPT ![self].max_position = Max2(m, ns[l].max_position)]
        ELSE IF l = None
        THEN [ns EXCEPT ![self].max_position = Max2(m, ns[r].max_position)]
        ELSE [ns EXCEPT ![self].max_position =
                  Max2(Max2(ns[l].max_position, ns[r].max_position), m)]

\* the open insert frames return, innermost first
RECURSIVE Unwind(_, _)
Unwind(ns, frames) ==
    IF frames = <<>> THEN ns
    ELSE Unwind(insert_tail(ns, frames[Len(frames)]), SubSeq(frames, 1, Len(frames) - 1))

\* ------------------------------------------------------------------ the caller
\* The node the caller calls insert on.
Target == IF caller = "top" THEN get_root(nodes, tree) ELSE tree

Init0(c, lim) ==
    /\ nodes = <<>>
    /\ _id_counter \in {NoAttr, 0}
    /\ tree = None
    /\ caller = c
    /\ limits = lim
    /\ pc = "idle"
    /\ new = None
    /\ stack = <<>>
    /\ upd = NoFrame
    /\ rotations = <<>>
    /\ ret = NoCall
    /\ exc = "none"
    /\ pre = <<>>
    /\ reply = NoReply
    /\ heap = <<>>

\* node = interval_tree_genomics(start, end): lines 21-33.  Line 22 reads the
\* class attribute _id_counter; the class body (line 11) defines id_counter,
\* so the read raises AttributeError unless the attribute has been set on the
\* class from outside.  Both cases are initial states.
Create(start, end) ==
    /\ pc = "idle"
    /\ Len(nodes) < limits.nodes
    /\ IF _id_counter = NoAttr
       THEN /\ pc' = "raised"
            /\ exc' = "AttributeError"
            /\ UNCHANGED <<nodes, _id_counter, new>>
       ELSE /\ nodes' = Append(nodes, NewNode(_id_counter, start, end))
            /\ _id_counter' = _id_counter + 1
            /\ new' = Len(nodes) + 1
            /\ pc' = "created"
            /\ exc' = exc
    /\ reply' = NoReply
    /\ UNCHANGED <<tree, caller, limits, stack, upd, rotations, ret, pre, heap>>

\* lines 284-285: the first node becomes the tree
Bind ==
    /\ pc = "created"
    /\ tree = None
    /\ tree' = new
    /\ new' = None
    /\ pc' = "idle"
    /\ UNCHANGED <<nodes, _id_counter, caller, limits, stack, upd, rotations, ret, exc,
                   pre, reply, heap>>

\* lines 47-63: the call of insert, down to the attachment of the node
InsertCall ==
    /\ pc = "created"
    /\ tree # None
    /\ LET path == InsertPath(nodes, Target, new)
           p == path[Len(path)]
           right == ~GoesLeft(nodes, p, new)
       IN  /\ nodes' = Attach(nodes, p, new, right)
           /\ stack' = path
           /\ upd' = [self |-> p, insertion_at_right_subtree |-> right]
    /\ new' = None
    /\ rotations' = <<>>
    /\ pre' = nodes
    /\ pc' = "update"
    /\ UNCHANGED <<_id_counter, tree, caller, limits, ret, exc, reply, heap>>

\* lines 142-176, one level
UpdateBalance ==
    /\ pc = "update"
    /\ LET o == _update_balance_factors_and_rebalance(
                    nodes, upd.self, upd.insertion_at_right_subtree)
       IN  /\ nodes' = o.ns
           /\ upd' = o.frame
           /\ rotations' = IF o.rotation = "none" THEN rotations
                           ELSE Append(rotations, o.rotation)
           /\ exc' = o.exc
           /\ pc' = CASE o.next = "return" -> "unwind"
                      [] o.next = "recurse" -> "update"
                      [] o.next = "second_rotation" -> "second_rotation"
                      [] OTHER -> "raised"
           /\ stack' = IF o.next = "raise" THEN <<>> ELSE stack
    /\ UNCHANGED <<_id_counter, tree, caller, limits, new, ret, pre, reply, heap>>

\* lines 134 and 138
SecondRotation ==
    /\ pc = "second_rotation"
    /\ nodes' = SecondHalf(nodes, upd.self, rotations[Len(rotations)])
    /\ pc' = "unwind"
    /\ UNCHANGED <<_id_counter, tree, caller, limits, new, stack, upd, rotations, ret, exc,
                   pre, reply, heap>>

\* lines 64-71 in every open frame; insert has no return value
Return ==
    /\ pc = "unwind"
    /\ nodes' = Unwind(nodes, stack)
    /\ stack' = <<>>
    /\ upd' = NoFrame
    /\ ret' = None
    /\ pre' = <<>>
    /\ pc' = "idle"
    /\ UNCHANGED <<_id_counter, tree, caller, limits, new, rotations, exc, reply, heap>>

\* lines 280-281: the interval of the next node; a run that starts with a
\* scenario takes its intervals first
Inputs ==
    IF Len(nodes) < Len(limits.script)
    THEN {limits.script[Len(nodes) + 1]}
    ELSE {<<start, start + len>> : start \in 0..MaxStart, len \in limits.lens}

Next ==
    \/ \E interval \in Inputs : Create(interval[1], interval[2])
    \/ Bind
    \/ InsertCall
    \/ UpdateBalance
    \/ SecondRotation
    \/ Return

\* ------------------------------------------------------------------ query and delete
\* query_overlap in mode `all` as the specification describes it (the class
\* has no such method): from a node, the left subtree is entered only if its
\* max_position >= probe_start, the right subtree only if the node's
\* interval_start <= probe_end, and a visited node is reported if
\* interval_start <= probe_end and interval_end >= probe_start.
RECURSIVE query_overlap(_, _, _, _)
query_overlap(ns, node, probe_start, probe_end) ==
    IF node = None THEN {}
    ELSE LET l == ns[node].left_child
             r == ns[node].right_child
         IN  (IF l # None /\ ns[l].max_position >= probe_start
              THEN query_overlap(ns, l, probe_start, probe_end) ELSE {})
             \cup (IF /\ ns[node].interval_start <= probe_end
                      /\ ns[node].interval_end >= probe_start
                   THEN {node} ELSE {})
             \cup (IF ns[node].interval_start <= probe_end
                   THEN query_overlap(ns, r, probe_start, probe_end) ELSE {})

\* the tree handle's root: the top node, or None for the empty tree
Root == IF tree = None THEN None ELSE get_root(nodes, tree)

\* The caller makes one query or delete call between two inserts.
Query(probe_start, probe_end) ==
    /\ pc = "idle"
    /\ reply = NoReply
    /\ _id_counter # NoAttr
    /\ reply' = [op |-> "query", probe_start |-> probe_start, probe_end |-> probe_end,
                 result |-> query_overlap(nodes, Root, probe_start, probe_end)]
    /\ UNCHANGED <<nodes, _id_counter, tree, caller, limits, pc, new, stack, upd,
                   rotations, ret, exc, pre, heap>>

\* lines 178-180: delete is `pass`; it changes nothing and returns None
delete(ns, self, node) == [ns |-> ns, returned |-> "None", exc |-> "none"]

Delete(self, node) ==
    /\ pc = "idle"
    /\ reply = NoReply
    /\ self = Root
    /\ LET o == delete(nodes, self, node)
       IN  /\ nodes' = o.ns
           /\ reply' = [op |-> "delete", self |-> self, node |-> node,
                        returned |-> o.returned, exc |-> o.exc]
    /\ UNCHANGED <<_id_counter, tree, caller, limits, pc, new, stack, upd, rotations,
                   ret, exc, pre, heap>>

NextApi ==
    \/ Next
    \/ \E probe_start \in 0..(MaxStart + MaxLen) :
           \E probe_end \in probe_start..(MaxStart + MaxLen) :
               Query(probe_start, probe_end)
    \/ \E self \in 1..Len(nodes) : \E node \in 1..Len(nodes) : Delete(self, node)

\* every insert on the current top node; point intervals
Init == Init0("top", [nodes |-> MaxNodes, lens |-> {0}, script |-> <<>>])
Spec == Init /\ [][Next]_vars

\* every insert on the current top node; fewer nodes, intervals of several lengths
\* with queries and deletes between the inserts
InitAug == Init0("top", [nodes |-> MaxAugNodes, lens |-> 0..MaxLen, script |-> <<>>])
SpecAug == InitAug /\ [][NextApi]_vars

\* Workload for creation: interval_tree_genomics(start, end) is called with any
\* pair of arguments, end = start - 1 included (lines 21-33 take what they get).
InitAny == Init0("top", [nodes |-> MaxAnyNodes, lens |-> {-1, 0}, script |-> <<>>])
SpecAny == InitAny /\ [][Next]_vars

\* Workload that starts with scenario B: (0,10), (20,30), (5,15) go into an
\* empty tree in this order; further nodes follow.
ScenarioB == <<<<0, 10>>, <<20, 30>>, <<5, 15>>>>
InitScenarioB == Init0("top", [nodes |-> MaxScenarioNodes, lens |-> {0}, script |-> ScenarioB])
SpecScenarioB == InitScenarioB /\ [][Next]_vars

\* Workload that starts with six insertions, the last of which does a double
\* rotation whose inner node is not balanced; further nodes follow.
AfterDouble == <<<<0, 0>>, <<0, 0>>, <<2, 2>>, <<1, 1>>, <<3, 3>>, <<1, 1>>>>
InitAfterDouble == Init0("top", [nodes |-> MaxFollowNodes, lens |-> {0}, script |-> AfterDouble])
SpecAfterDouble == InitAfterDouble /\ [][Next]_vars

\* Workload of the module's own driver (lines 274-288): tree stays bound to
\* the first node created and every insert is called on that node.
InitDriver == Init0("first", [nodes |-> MaxDriverNodes, lens |-> {0}, script |-> <<>>])
SpecDriver == InitDriver /\ [][Next]_vars

\* ------------------------------------------------------------------ stronger_min_heap
\* awesome_data_types.py.  heap is the sequence of the stronger_min_heap
\* objects in creation order; heap[1] is the driver's `root`.

\* lines 50-55 with lines 22-29: the object created as number id
stronger_min_heap_init(id, key) ==
    [key |-> key, children |-> <<>>, parent |-> None,
     root |-> id, current |-> id, size |-> 1]

\* lines 34-36
add_child(hs, self, child) ==
    [hs EXCEPT ![self].children = Append(@, child), ![child].parent = self]

HeapOutcome(hs, e) == [hs |-> hs, exc |-> e]

\* case 3 handled like case 1: the node goes under curr without climbing
stronger_min_heap_insert_NoClimb(hs, self, node, curr) ==
    HeapOutcome([add_child(hs, curr, node) EXCEPT ![self].current = node,
                                                  ![self].size = @ + 1], "none")

\* case 2 handled like case 1: a node with curr's key goes under curr
RECURSIVE stronger_min_heap_insert_EqualBelow(_, _, _, _)
stronger_min_heap_insert_EqualBelow(hs, self, node, curr) ==
    IF hs[node].key >= hs[curr].key
    THEN HeapOutcome([add_child(hs, curr, node) EXCEPT ![self].current = node,
                                                       ![self].size = @ + 1], "none")
    ELSE IF hs[curr].parent = None THEN HeapOutcome(hs, "AttributeError")
    ELSE stronger_min_heap_insert_EqualBelow(hs, hs[curr].parent, node, hs[curr].parent)

\* lines 57-86: self.insert(node, curr).  Calling a method of None (the parent
\* of the topmost object) raises AttributeError.
RECURSIVE stronger_min_heap_insert(_, _, _, _)
stronger_min_heap_insert(hs, self, node, curr) ==
    \* lines 61-65
    IF hs[self].root = None
    THEN HeapOutcome([hs EXCEPT ![self].root = node, ![self].current = node,
                                ![self].size = @ + 1], "none")
    \* lines 69-72
    ELSE IF hs[node].key > hs[curr].key
    THEN HeapOutcome([add_child(hs, curr, node) EXCEPT ![self].current = node,
                                                       ![self].size = @ + 1], "none")
    \* lines 76-80
    ELSE IF hs[node].key = hs[curr].key
    THEN IF hs[curr].parent = None THEN HeapOutcome(hs, "AttributeError")
         ELSE HeapOutcome([add_child(hs, hs[curr].parent, node)
                               EXCEPT ![self].current = node,
                                      ![self].size = @ + 1], "none")
    \* lines 84-85
    ELSE IF hs[curr].parent = None THEN HeapOutcome(hs, "AttributeError")
    ELSE stronger_min_heap_insert(hs, hs[curr].parent, node, hs[curr].parent)

\* lines 234-239: one turn of the driver's loop
HeapStep(key) ==
    /\ heap # <<>>
    /\ exc = "none"
    /\ Len(heap) <= MaxHeapInserts
    /\ LET curr == heap[1].current
           node == Len(heap) + 1
           o == stronger_min_heap_insert(
                    Append(heap, stronger_min_heap_init(node, key)), curr, node, curr)
       IN  IF o.exc # "none"
           THEN /\ heap' = o.hs
                /\ exc' = o.exc
           ELSE /\ heap' = [o.hs EXCEPT ![node].root = curr, ![1].current = node]
                /\ exc' = exc
    /\ UNCHANGED <<nodes, _id_counter, tree, caller, limits, pc, new, stack, upd,
                   rotations, ret, pre, reply>>

\* lines 229-230: root = stronger_min_heap(key=0, ...); root.current = root
InitHeap ==
    /\ heap = <<[stronger_min_heap_init(1, 0) EXCEPT !.current = 1]>>
    /\ nodes = <<>>
    /\ _id_counter = NoAttr
    /\ tree = None
    /\ caller = "none"
    /\ limits = [nodes |-> 0, lens |-> {}, script |-> <<>>]
    /\ pc = "idle"
    /\ new = None
    /\ stack = <<>>
    /\ upd = NoFrame
    /\ rotations = <<>>
    /\ ret = NoCall
    /\ exc = "none"
    /\ pre = <<>>
    /\ reply = NoReply

\* line 235: key = randint(1, 4), here 1..MaxKey
NextHeap == \E key \in 1..MaxKey : HeapStep(key)

SpecHeap == InitHeap /\ [][NextHeap]_vars

\* ------------------------------------------------------------------ oracles
\* What the child links say, computed without the stored balance_factor and
\* max_position.  A walk stops after Len(ns) links, which is deeper than any
\* tree of Len(ns) nodes, so that it also ends on links that form a cycle.
Created == 1..Len(nodes)
Max2(a, b) == IF a >= b THEN a ELSE b
Abs(x) == IF x < 0 THEN -x ELSE x

RECURSIVE HeightWithin(_, _, _)
HeightWithin(ns, n, links) ==
    IF n = None \/ links = 0 THEN 0
    ELSE 1 + Max2(HeightWithin(ns, ns[n].left_child, links - 1),
                  HeightWithin(ns, ns[n].right_child, links - 1))
Height(n) == HeightWithin(nodes, n, Len(nodes))

\* left subtree, node, right subtree
RECURSIVE InOrderWithin(_, _, _)
InOrderWithin(ns, n, links) ==
    IF n = None \/ links = 0 THEN <<>>
    ELSE InOrderWithin(ns, ns[n].left_child, links - 1) \o <<n>>
         \o InOrderWithin(ns, ns[n].right_child, links - 1)
InOrder(n) == InOrderWithin(nodes, n, Len(nodes))
Subtree(n) == {InOrder(n)[i] : i \in DOMAIN InOrder(n)}

\* the created nodes that are in the tree and have no parent
TopNodes == {n \in Created : n # new /\ nodes[n].parent = None}
Top == CHOOSE n \in TopNodes : TRUE
Completed == pc = "idle" /\ Len(nodes) >= 2      \* an insert has returned

MaxEndOf(S) == CHOOSE m \in {nodes[x].interval_end : x \in S} :
                   \A x \in S : nodes[x].interval_end <= m

\* ------------------------------------------------------------------ claims

\* C1: after every completed insert, at every node the heights of the two
\* subtrees, computed from the child links, differ by at most 1.
C1_HeightBalanced ==
    Completed =>
        \A n \in Created :
            Abs(Height(nodes[n].right_child) - Height(nodes[n].left_child)) <= 1

\* C2: after every completed insert, the stored max_position of every node is
\* the maximum interval_end over the subtree rooted at it.
C2_MaxPositionExact ==
    Completed => \A n \in Created : nodes[n].max_position = MaxEndOf(Subtree(n))

\* C3 as stated: after every completed insert, every start in a node's left
\* subtree is <= the node's start and every start in its right subtree is
\* strictly greater.
C3_StrictOrdering ==
    Completed =>
        \A n \in Created :
            /\ \A x \in Subtree(nodes[n].left_child) :
                   nodes[x].interval_start <= nodes[n].interval_start
            /\ \A x \in Subtree(nodes[n].right_child) :
                   nodes[x].interval_start > nodes[n].interval_start

\* C3 as amended: after every completed insert, every start in a node's left
\* subtree is <= the node's start and every start in its right subtree is >=
\* the node's start.
C3_Ordering ==
    Completed =>
        \A n \in Created :
            /\ \A x \in Subtree(nodes[n].left_child) :
                   nodes[x].interval_start <= nodes[n].interval_start
            /\ \A x \in Subtree(nodes[n].right_child) :
                   nodes[x].interval_start >= nodes[n].interval_start

\* an insert has returned and a rotation has left an equal start in the right
\* subtree of some node
C3_Witness ==
    /\ Completed
    /\ \E n \in Created : \E x \in Subtree(nodes[n].right_child) :
           nodes[x].interval_start = nodes[n].interval_start

\* C4: the value insert returns is the node that has no parent after the
\* rebalancing.
C4_ReturnsTop == (pc = "idle" /\ ret # NoCall) => ret \in TopNodes

\* C5: after every completed insert, the stored balance_factor of every node
\* is height(right subtree) - height(left subtree) by the child links.
C5_StoredBalanceExact ==
    Completed =>
        \A n \in Created :
            nodes[n].balance_factor =
                Height(nodes[n].right_child) - Height(nodes[n].left_child)

\* C6: in every state (so after every completed insert and after each rotation
\* within one), a node's children name it as their parent, and exactly one
\* node of the tree has no parent.
C6_LinkConsistency ==
    /\ \A n \in Created :
           /\ nodes[n].left_child # None => nodes[nodes[n].left_child].parent = n
           /\ nodes[n].right_child # None => nodes[nodes[n].right_child].parent = n
    /\ tree # None => Cardinality(TopNodes) = 1

\* between the two halves of a right-left double rotation whose first half
\* moved a subtree from the promoted node to the demoted one
C6_Witness ==
    /\ pc = "second_rotation"
    /\ rotations = <<"double_right_left">>
    /\ LET promoted == nodes[upd.self].right_child
           demoted == nodes[promoted].right_child
       IN  /\ demoted # None
           /\ nodes[demoted].left_child # None

\* C7: after k completed insertions the walk from the one node without a
\* parent meets each of the k+1 created nodes exactly once.
C7_NoNodeLostOrDuplicated ==
    (pc = "idle" /\ tree # None) =>
        /\ Cardinality(TopNodes) = 1
        /\ Len(InOrder(Top)) = Len(nodes)
        /\ Subtree(Top) = Created

\* an insert with a single right rotation in a tree of six or more nodes has
\* returned
C7_Witness ==
    /\ pc = "idle"
    /\ Len(nodes) >= 6
    /\ rotations = <<"single_right">>

\* C8: a stored balance_factor of +2 or -2 is seen only at the node being
\* rebalanced, between the two halves of its double rotation; whenever insert
\* has returned every stored balance_factor is in {-1, 0, 1}.
C8_TransientTwo ==
    \A n \in Created :
        \/ nodes[n].balance_factor \in {-1, 0, 1}
        \/ /\ pc = "second_rotation"
           /\ n = upd.self
           /\ nodes[n].balance_factor \in {-2, 2}

\* an insert that brought a node to +2 or -2 has returned
C8_Witness ==
    /\ pc = "idle"
    /\ rotations # <<>>
    /\ Len(nodes) >= 5

\* C9: no stored balance_factor ever has magnitude above 2 and the ValueError
\* of line 152 is never raised.
C9_NoIllegalBalance ==
    /\ exc # "ValueError"
    /\ \A n \in Created : ~IllegalBalance(nodes[n].balance_factor)

\* a node stands at magnitude 2 in the middle of an insert
C9_Witness ==
    /\ pc = "second_rotation"
    /\ nodes[upd.self].balance_factor = -2
    /\ Len(nodes) >= 6

\* C10: after n insertions the in-order walk from the top node yields the
\* interval_start values of all inserted nodes in non-decreasing order.
C10_InOrderSorted ==
    (pc = "idle" /\ tree # None) =>
        /\ Len(InOrder(Top)) = Len(nodes)
        /\ \A i \in 1..(Len(InOrder(Top)) - 1) :
               nodes[InOrder(Top)[i]].interval_start
                   <= nodes[InOrder(Top)[i + 1]].interval_start

\* a tree of MaxNodes nodes with a repeated start, built with rotations
C10_Witness ==
    /\ pc = "idle"
    /\ Len(nodes) = MaxNodes
    /\ rotations # <<>>
    /\ \E a, b \in Created : a # b /\ nodes[a].interval_start = nodes[b].interval_start

\* C11: every answer of query_overlap in mode `all` is the set of the inserted
\* intervals with interval_start <= probe_end and interval_end >= probe_start,
\* the one a scan over all nodes gives (empty for the empty tree and when
\* nothing overlaps).
C11_QueryMatchesScan ==
    reply.op = "query" =>
        reply.result = {n \in Created : /\ nodes[n].interval_start <= reply.probe_end
                                        /\ nodes[n].interval_end >= reply.probe_start}

\* C12: creating a node with start > end is rejected with InvalidIntervalError
\* and creates no node, so every node that exists has
\* interval_start <= interval_end.
C12_RejectsMalformed ==
    \A n \in Created : nodes[n].interval_start <= nodes[n].interval_end

\* C13: a call of delete never returns normally: it fails with an explicit
\* "unsupported operation" error (and leaves the tree as it was).
C13_DeleteRaises ==
    reply.op = "delete" =>
        /\ reply.exc = "UnsupportedOperation"
        /\ reply.returned = "nothing"

\* C14: every creation succeeds in taking an id from the class-level counter,
\* and a node created later has a greater node_id than a node created earlier.
C14_CreationAssignsId ==
    /\ ~(pc = "raised" /\ nodes = <<>>)
    /\ \A i, j \in Created : i < j => nodes[i].node_id < nodes[j].node_id

\* C15: scenario B.  Inserting (0,10), (20,30), (5,15) into an empty tree does
\* no rotation on the first two insertions and exactly one double
\* (right-then-left) rotation on the third; the top node is then (5,15) with
\* balance_factor 0, left child (0,10) and right child (20,30).
C15_ScenarioB ==
    /\ Len(nodes) <= 2 => rotations = <<>>
    /\ Len(nodes) = 3 /\ pc \in {"update", "second_rotation"} =>
           rotations \in {<<>>, <<"double_right_left">>}
    /\ Len(nodes) = 3 /\ pc \in {"unwind", "idle"} =>
           rotations = <<"double_right_left">>
    /\ Len(nodes) = 3 /\ pc = "idle" =>
           /\ TopNodes = {3}
           /\ <<nodes[3].interval_start, nodes[3].interval_end>> = <<5, 15>>
           /\ nodes[3].balance_factor = 0
           /\ nodes[3].left_child = 1
           /\ <<nodes[1].interval_start, nodes[1].interval_end>> = <<0, 10>>
           /\ nodes[3].right_child = 2
           /\ <<nodes[2].interval_start, nodes[2].interval_end>> = <<20, 30>>
           /\ \A n \in {1, 2} : /\ nodes[n].parent = 3
                                 /\ nodes[n].left_child = None
                                 /\ nodes[n].right_child = None

\* the third insertion of the scenario has returned
C15_Witness ==
    /\ limits.script = ScenarioB
    /\ Len(nodes) = 3
    /\ pc = "idle"
    /\ ret = None

\* ------------------------------------------------------------------ stronger_min_heap claims
HeapNodes == 1..Len(heap)
Children(n) == {heap[n].children[i] : i \in 1..Len(heap[n].children)}

\* C16: after every insert of the driver pattern (root of key 0, keys >= 1),
\* the key of every node is less than or equal to the key of each of its
\* children.
C16_MinHeapProperty ==
    \A n \in HeapNodes : \A c \in Children(n) : heap[n].key <= heap[c].key

\* a node with a smaller key than the node inserted before it has been inserted
C16_Witness ==
    /\ exc = "none"
    /\ \E n \in HeapNodes : n > 2 /\ heap[n].key < heap[n - 1].key

\* C17: the parent of each inserted node is the most recently inserted node
\* (or the root) whose key is strictly smaller than the node's key.
C17_ClosestSmallerAncestor ==
    \A n \in HeapNodes \ {1} :
        /\ heap[n].parent \in 1..(n - 1)
        /\ heap[heap[n].parent].key < heap[n].key
        /\ \A m \in (heap[n].parent + 1)..(n - 1) : heap[m].key >= heap[n].key
        /\ n \in Children(heap[n].parent)

\* a node has been inserted after a node of the same key, and another one has
\* climbed over two levels
C17_Witness ==
    /\ exc = "none"
    /\ \E n \in HeapNodes : n > 2 /\ heap[n].key = heap[n - 1].key
    /\ \E n \in HeapNodes : n > 3 /\ heap[n].parent # None /\ heap[n].parent < n - 2
                                  /\ heap[n - 1].parent = n - 2

\* ------------------------------------------------------------------ rotation and propagation
\* the node that stands, after the rotation at upd.self, where upd.self stood
Occupant == nodes[upd.self].parent
ProperAncestors(n) == {a \in Created : a # n /\ n \in Subtree(a)}
Rotated == pc = "unwind" /\ rotations # <<>>

\* C18: when an insertion has rotated at a node m, the subtree now standing at
\* m's former position is as high as m's subtree was before the insertion
\* began, and every proper ancestor's stored balance_factor is its true height
\* difference although propagation stopped at m.
C18_RotationRestoresHeight ==
    Rotated =>
        /\ Height(Occupant) = HeightWithin(pre, upd.self, Len(pre))
        /\ \A a \in ProperAncestors(Occupant) :
               nodes[a].balance_factor =
                   Height(nodes[a].right_child) - Height(nodes[a].left_child)

\* C19: every insert of valid intervals returns normally; in particular the
\* step from a node to its parent finds the side on which the parent's subtree
\* grew also when the parent has no right child.
C19_InsertReturns ==
    pc = "raised" => nodes = <<>>

\* C20: under the driver's pattern (every insert called on the first node
\* created), each new node is placed by ordered descent over the whole tree:
\* after every insert, at every node of the tree under the node without
\* parent, the left subtree's starts are <= the node's start and the right
\* subtree's starts are not below it.  (Equal starts on the right are let
\* pass here: they are the matter of C3, not of the driver.)
C20_DriverOrdering ==
    caller = "first" /\ Completed =>
        \A n \in Subtree(Top) :
            /\ \A x \in Subtree(nodes[n].left_child) :
                   nodes[x].interval_start <= nodes[n].interval_start
            /\ \A x \in Subtree(nodes[n].right_child) :
                   nodes[n].interval_start <= nodes[x].interval_start


====
